---------------------------- MODULE Spec2Model ----------------------------
(***************************************************************************)
(* Model of lama/registration_pipeline/parallel_average.py: several        *)
(* independent worker processes run run_elastix_stage on the same inputs   *)
(* and output directory and coordinate only through files of the stage     *)
(* directories (per-specimen directories, spec_done, avg_started,          *)
(* avg_done, the elastix parameter file, the average volume).              *)
(*                                                                         *)
(* Every action is one file-system operation of one worker together with   *)
(* the purely local statements that follow it up to the next file-system   *)
(* operation.                                                              *)
(***************************************************************************)
EXTENDS Integers, FiniteSets

\* Bounds of the model.
NumWorkers == 2
NumSpecs == 2
NumStages == 2
\* Number of volumes given to pad_volumes.
NumVols == 2
\* Largest size of a volume, and of max_dims, in one dimension.
MaxDim == 3

Workers == 1 .. NumWorkers
\* spec_ids (line 69): the stems of the files of inputs_dir.
Specimens == 1 .. NumSpecs
\* enumerate(config['registration_stage_params']) (line 71).
Stages == 0 .. (NumStages - 1)

\* pad_volumes: max_dims and vol.GetSize() are (z, y, x) triples (line 28).
NumDims == 3
Dims == 1 .. NumDims
\* Indices of volpaths.
Vols == 1 .. NumVols
\* The sizes a volume or max_dims can have in one dimension.
Sizes == 1 .. MaxDim
\* The locals vol_dims, upper_extend, lower_extend before the first volume.
NoDims == [d \in Dims |-> 0]

\* next_spec_id before its first assignment (the local is unbound).
Unbound == 0

VARIABLES
  pc,            \* per worker: the statement it is about to execute
  stage,         \* per worker: i of the for loop (line 71)
  next_spec_id,  \* per worker: the local next_spec_id (line 90)
  fresh,         \* per worker: next_spec_id was assigned at line 90 of this loop iteration
  fixed_vol,     \* per worker: the local fixed_vol (lines 66, 122)
  err,           \* per worker: the exception that ended it, "none" otherwise
  specDirs,      \* per stage: names of the sub-directories of stage_dir
  specDone,      \* per stage and specimen: successful creations of <stage_dir>/<id>/spec_done
  avgStarted,    \* per stage: successful creations of <stage_dir>/avg_started
  avgDone,       \* per stage: successful creations of <stage_dir>/avg_done
  avgFile,       \* per stage: averages/<stage_id>.nrrd: absent, partial, complete
  avgCalls,      \* per stage: number of make_avg invocations
  avgInputs,     \* per stage: the paths the last make_avg call collected (line 35)
  paramFile,     \* per stage: the elastix parameter file: absent, empty, written
  regCalls,      \* per stage and specimen: number of registrator.run() invocations
  seed,          \* what earlier runs had left on disk when the first worker started
  max_dims,      \* pad_volumes: the parameter max_dims
  pad            \* pad_volumes: position in the loop over volpaths and its locals

vars == << pc, stage, next_spec_id, fresh, fixed_vol, err, specDirs, specDone, avgStarted,
           avgDone, avgFile, avgCalls, avgInputs, paramFile, regCalls, seed,
           max_dims, pad >>

workerVars == << pc, stage, next_spec_id, fresh, fixed_vol, err >>
diskVars == << specDirs, specDone, avgStarted, avgDone, avgFile, paramFile >>
countVars == << avgCalls, avgInputs, regCalls, seed >>
padVars == << max_dims, pad >>

\* config['fixed_volume'] (line 66).
ConfigFixedVolume == << "config" >>
\* avg_dir / f'{stage_id}.nrrd' of stage k (lines 110, 122).
AveragePath(k) == << "averages", k >>
\* inputs_dir / f'{id}.nrrd' (line 118).
InputPath(s) == << "inputs", s >>
\* <stage_dir of stage k> / id / f'{id}.nrrd' (lines 32, 121).
OutputPath(k, s) == << "stage", k, s >>

Live == { "select", "barrier", "chk_done", "chk_started", "try_create",
          "make_avg", "averaging", "mark_avg", "param", "param_open",
          "param_write", "run", "running", "spec_done" }
Ended == { "returned", "crashed", "killed" }

TypeOK ==
  /\ pc \in [Workers -> Live \cup Ended \cup {"idle"}]
  /\ stage \in [Workers -> 0 .. NumStages]
  /\ next_spec_id \in [Workers -> Specimens \cup {Unbound}]
  /\ fresh \in [Workers -> BOOLEAN]
  /\ fixed_vol \in [Workers -> {ConfigFixedVolume} \cup {AveragePath(k) : k \in Stages}]
  /\ err \in [Workers -> { "none", "FileExistsError", "UnboundLocalError",
                           "RegistrationError", "AverageError", "OSError" }]
  /\ specDirs \in [Stages -> SUBSET Specimens]
  /\ specDone \in [Stages -> [Specimens -> Nat]]
  /\ avgStarted \in [Stages -> Nat]
  /\ avgDone \in [Stages -> Nat]
  /\ avgFile \in [Stages -> {"absent", "partial", "complete"}]
  /\ avgCalls \in [Stages -> Nat]
  /\ avgInputs \in [Stages -> SUBSET {OutputPath(k, s) : k \in Stages, s \in Specimens}]
  /\ paramFile \in [Stages -> {"absent", "empty", "written"}]
  /\ regCalls \in [Stages -> [Specimens -> Nat]]
  /\ max_dims \in [Dims -> Sizes]
  /\ pad \in [ pc : {"idle", "loop", "check", "returned", "raised", "exited"},
                i : 1 .. (NumVols + 1),
                vol_dims : [Dims -> Sizes] \cup {NoDims},
                upper_extend : [Dims -> (0 - MaxDim) .. MaxDim],
                lower_extend : [Dims -> (0 - MaxDim) .. MaxDim],
                written : SUBSET Vols ]
  /\ seed \in [stage : Stages, done : SUBSET Specimens, failed : SUBSET Specimens]

-----------------------------------------------------------------------------
(* File-system predicates and pure helpers. *)

\* (spec_dir / 'spec_done').is_file()  (line 44)
spec_done_is_file(k, s) == specDone[k][s] > 0

\* Mutant: returns True at the first sub-directory that holds spec_done.
check_stage_done_any(k) == \E s \in specDirs[k] : spec_done_is_file(k, s)

\* Mutant: never finds a spec_done file.
check_stage_done_never(k) == specDirs[k] = {}

\* root_dir.iterdir() for the directory of stage k (line 41): the specimen
\* directories, and the files the coordinator keeps beside them (lines 80, 81,
\* 127): avg_started, avg_done and the parameter file.
iterdir(k) ==
  { [is_dir |-> TRUE, name |-> "specimen", id |-> s] : s \in specDirs[k] }
    \cup (IF avgStarted[k] > 0
          THEN { [is_dir |-> FALSE, name |-> "avg_started", id |-> Unbound] } ELSE {})
    \cup (IF avgDone[k] > 0
          THEN { [is_dir |-> FALSE, name |-> "avg_done", id |-> Unbound] } ELSE {})
    \cup (IF paramFile[k] # "absent"
          THEN { [is_dir |-> FALSE, name |-> "elxparam", id |-> Unbound] } ELSE {})

\* Mutant: lines 42-43 are missing, every entry is asked for spec_done.
check_stage_done_unfiltered(k) ==
  \A spec_dir \in iterdir(k) :
    spec_dir.is_dir /\ spec_done_is_file(k, spec_dir.id)

\* check_stage_done(stage_dir) (lines 40-46): entries that are no directories
\* are skipped, a directory without spec_done returns False, else True.
check_stage_done(k) ==
  \A spec_dir \in iterdir(k) :
    spec_dir.is_dir => spec_done_is_file(k, spec_dir.id)

\* Mutant: the set difference of line 87 is taken the wrong way round.
not_started_reversed(k) == specDirs[k] \ Specimens

\* Mutant: the specimens without spec_done count as not started.
not_started_unmarked(k) == {s \in Specimens : specDone[k][s] = 0}

\* Mutant: the sub-directories of stage_dir are not subtracted.
not_started_all(k) == Specimens

\* not_started (lines 86-87): spec_ids minus the sub-directories of stage_dir.
not_started(k) == Specimens \ specDirs[k]

\* Mutant: line 99 looks for avg_done outside the stage directory.
average_done_elsewhere(k) == FALSE

\* Mutant: line 99 tests avg_started instead of avg_done.
average_done_wrong_marker(k) == avgStarted[k] > 0

\* average_done.is_file() (line 99)
average_done_is_file(k) == avgDone[k] > 0

\* starting_avg.is_file() (line 102)
starting_avg_is_file(k) == avgStarted[k] > 0

\* Mutant: avg_started opened with 'w': the creation always succeeds.
open_starting_avg_w(k) == TRUE

\* open(starting_avg, 'x') (line 106) succeeds iff the file does not exist.
open_starting_avg(k) == avgStarted[k] = 0

\* open(average_done, 'x') (line 112) succeeds iff the file does not exist.
open_average_done(k) == avgDone[k] = 0

\* Mutant: spec_done opened with 'w': the creation always succeeds.
open_spec_done_w(k, s) == TRUE

\* open(spec_done, 'x') (line 150) succeeds iff the file does not exist.
open_spec_done(k, s) == specDone[k][s] = 0

\* make_avg lines 28-35: one path per sub-directory of the stage directory.
make_avg_paths(k) == {OutputPath(k, s) : s \in specDirs[k]}

\* Lines 117-121: the moving volume of specimen s in stage i.
moving_volume(i, s) == IF i = 0 THEN InputPath(s) ELSE OutputPath(i - 1, s)

\* Mutant: line 122 is missing, fixed_vol keeps the value of line 66.
target_volume_unchained(i, current) == current

\* Lines 117, 122: fixed_vol is reassigned in every stage but the first.
target_volume(i, current) == IF i = 0 THEN current ELSE AveragePath(i - 1)

\* Worker w goes on to statement p; its locals are unchanged.
Goto(w, p) ==
  /\ pc' = [pc EXCEPT ![w] = p]
  /\ UNCHANGED << stage, next_spec_id, fresh, fixed_vol, err >>

\* Lines 116-127 of worker w: the inputs of the registration are resolved.
ResolveInputs(w) ==
  /\ fixed_vol' = [fixed_vol EXCEPT ![w] = target_volume(stage[w], fixed_vol[w])]
  /\ pc' = [pc EXCEPT ![w] = "param"]

\* The process of worker w is gone (state p, exception e); so are its locals.
Ends(w, p, e) ==
  /\ pc' = [pc EXCEPT ![w] = p]
  /\ err' = [err EXCEPT ![w] = e]
  /\ stage' = [stage EXCEPT ![w] = IF p = "returned" THEN NumStages ELSE 0]
  /\ next_spec_id' = [next_spec_id EXCEPT ![w] = Unbound]
  /\ fresh' = [fresh EXCEPT ![w] = FALSE]
  /\ fixed_vol' = [fixed_vol EXCEPT ![w] = ConfigFixedVolume]

\* Mutant: the exception is caught inside the while loop and logged, and the
\* loop goes round again.
RaiseLogged(w, e) ==
  /\ err' = [err EXCEPT ![w] = e]
  /\ pc' = [pc EXCEPT ![w] = "select"]
  /\ UNCHANGED << stage, next_spec_id, fresh, fixed_vol >>

\* The worker ends with an uncaught exception.
Raise(w, e) == Ends(w, "crashed", e)

\* Mutant: the function returns where the while loop should be left.
NextStageReturns(w) == Ends(w, "returned", "none")

\* break out of the while loop (lines 100, 113): the for loop takes the next
\* stage (next_spec_id keeps its value), or the function returns after the
\* last one.
NextStage(w) ==
  IF stage[w] + 1 = NumStages
  THEN Ends(w, "returned", "none")
  ELSE /\ stage' = [stage EXCEPT ![w] = stage[w] + 1]
       /\ pc' = [pc EXCEPT ![w] = "select"]
       /\ fresh' = [fresh EXCEPT ![w] = FALSE]
       /\ UNCHANGED << next_spec_id, fixed_vol, err >>

\* Lines 114-127 after the election branch did not break: sleep, then the
\* statements below the if/else run with whatever next_spec_id holds; reading
\* an unbound local raises UnboundLocalError (lines 118, 121).
FallThrough(w) ==
  IF next_spec_id[w] = Unbound
  THEN Raise(w, "UnboundLocalError")
  ELSE /\ ResolveInputs(w)
       /\ UNCHANGED << stage, next_spec_id, fresh, err >>

-----------------------------------------------------------------------------
(* Initial states. *)

FreshDisk ==
  /\ specDirs = [k \in Stages |-> {}]
  /\ specDone = [k \in Stages |-> [s \in Specimens |-> 0]]
  /\ avgStarted = [k \in Stages |-> 0]
  /\ avgDone = [k \in Stages |-> 0]
  /\ avgFile = [k \in Stages |-> "absent"]
  /\ paramFile = [k \in Stages |-> "absent"]

NoCalls ==
  /\ avgCalls = [k \in Stages |-> 0]
  /\ avgInputs = [k \in Stages |-> {}]
  /\ regCalls = [k \in Stages |-> [s \in Specimens |-> 0]]

\* The disk as earlier runs can leave it: the stages before k0 complete, in
\* stage k0 the specimens of D registered and marked and no average marker,
\* nothing of the later stages.
SeededDisk(k0, D) ==
  /\ specDirs = [k \in Stages |-> IF k < k0 THEN Specimens ELSE IF k = k0 THEN D ELSE {}]
  /\ specDone = [k \in Stages |-> [s \in Specimens |->
                    IF k < k0 \/ (k = k0 /\ s \in D) THEN 1 ELSE 0]]
  /\ avgStarted = [k \in Stages |-> IF k < k0 THEN 1 ELSE 0]
  /\ avgDone = [k \in Stages |-> IF k < k0 THEN 1 ELSE 0]
  /\ avgFile = [k \in Stages |-> IF k < k0 THEN "complete" ELSE "absent"]
  /\ paramFile = [k \in Stages |->
                    IF k < k0 \/ (k = k0 /\ D # {}) THEN "written" ELSE "absent"]
  /\ seed = [stage |-> k0, done |-> D, failed |-> {}]

WorkersAt(p) ==
  /\ pc = p
  /\ stage = [w \in Workers |-> 0]
  /\ next_spec_id = [w \in Workers |-> Unbound]
  /\ fresh = [w \in Workers |-> FALSE]
  /\ fixed_vol = [w \in Workers |-> ConfigFixedVolume]
  /\ err = [w \in Workers |-> "none"]

\* pad_volumes is not running.
PadIdle ==
  /\ max_dims = [d \in Dims |-> 1]
  /\ pad = [ pc |-> "idle", i |-> 1, vol_dims |-> NoDims, upper_extend |-> NoDims,
             lower_extend |-> NoDims, written |-> {} ]

\* No worker has been started yet, nothing is on disk.
Init ==
  /\ WorkersAt([w \in Workers |-> "idle"])
  /\ FreshDisk
  /\ NoCalls
  /\ PadIdle
  /\ seed = [stage |-> 0, done |-> {}, failed |-> {}]

\* N >= 1 workers are started together on a fresh disk; the others never run.
InitLive ==
  /\ \E started \in (SUBSET Workers) \ {{}} :
       WorkersAt([w \in Workers |-> IF w \in started THEN "select" ELSE "idle"])
  /\ FreshDisk
  /\ NoCalls
  /\ PadIdle
  /\ seed = [stage |-> 0, done |-> {}, failed |-> {}]

\* One fresh worker is started on what earlier runs left on disk.
InitResume ==
  /\ WorkersAt([w \in Workers |-> IF w = 1 THEN "select" ELSE "idle"])
  /\ \E k0 \in Stages, D \in SUBSET Specimens : SeededDisk(k0, D)
  /\ NoCalls
  /\ PadIdle

\* The disk as SeededDisk(k0, D), and in stage k0 the directories of the
\* specimens of F, which registrator.run() created (line 149) before the run
\* ended without reaching line 150.
AbandonedDisk(k0, D, F) ==
  /\ specDirs = [k \in Stages |->
                    IF k < k0 THEN Specimens ELSE IF k = k0 THEN D \cup F ELSE {}]
  /\ specDone = [k \in Stages |-> [s \in Specimens |->
                    IF k < k0 \/ (k = k0 /\ s \in D) THEN 1 ELSE 0]]
  /\ avgStarted = [k \in Stages |-> IF k < k0 THEN 1 ELSE 0]
  /\ avgDone = [k \in Stages |-> IF k < k0 THEN 1 ELSE 0]
  /\ avgFile = [k \in Stages |-> IF k < k0 THEN "complete" ELSE "absent"]
  /\ paramFile = [k \in Stages |->
                    IF k < k0 \/ (k = k0 /\ D \cup F # {}) THEN "written" ELSE "absent"]
  /\ seed = [stage |-> k0, done |-> D, failed |-> F]

\* The coordinator is invoked again, with one worker, on what an earlier run
\* left on disk; at most one registration of that run had not finished.
InitRetry ==
  /\ WorkersAt([w \in Workers |-> IF w = 1 THEN "select" ELSE "idle"])
  /\ \E k0 \in Stages, D \in SUBSET Specimens :
       \E F \in SUBSET (Specimens \ D) :
         /\ Cardinality(F) <= 1
         /\ AbandonedDisk(k0, D, F)
  /\ NoCalls
  /\ PadIdle

\* A stage directory with any content the coordinator's files can give it:
\* some specimen directories, spec_done in some of them, each of avg_started,
\* avg_done and the parameter file present or not; nothing in the other stages.
AnyStageDir(k0) ==
  /\ \E dirs \in SUBSET Specimens : \E marked \in SUBSET dirs :
       /\ specDirs = [k \in Stages |-> IF k = k0 THEN dirs ELSE {}]
       /\ specDone = [k \in Stages |-> [s \in Specimens |->
                         IF k = k0 /\ s \in marked THEN 1 ELSE 0]]
  /\ \E started \in {0, 1}, done \in {0, 1}, param \in {"absent", "empty", "written"} :
       /\ avgStarted = [k \in Stages |-> IF k = k0 THEN started ELSE 0]
       /\ avgDone = [k \in Stages |-> IF k = k0 THEN done ELSE 0]
       /\ paramFile = [k \in Stages |-> IF k = k0 THEN param ELSE "absent"]
  /\ avgFile = [k \in Stages |-> "absent"]
  /\ seed = [stage |-> k0, done |-> {}, failed |-> {}]

\* Worker 1 stands before the call of check_stage_done (line 93) for a stage
\* directory of any content.
InitBarrier ==
  /\ \E k0 \in Stages :
       /\ AnyStageDir(k0)
       /\ stage = [w \in Workers |-> IF w = 1 THEN k0 ELSE 0]
  /\ pc = [w \in Workers |-> IF w = 1 THEN "barrier" ELSE "idle"]
  /\ next_spec_id = [w \in Workers |-> Unbound]
  /\ fresh = [w \in Workers |-> FALSE]
  /\ fixed_vol = [w \in Workers |-> ConfigFixedVolume]
  /\ err = [w \in Workers |-> "none"]
  /\ NoCalls
  /\ PadIdle

-----------------------------------------------------------------------------
(* Actions of worker w. *)

\* A process is started: lines 58-81 up to the first pass of the while loop.
Launch(w) ==
  /\ pc[w] = "idle"
  /\ Goto(w, "select")
  /\ UNCHANGED << diskVars, countVars >>
  /\ UNCHANGED padVars

\* Lines 86-91: list the stage directory, pick any specimen without a directory.
SelectWork(w) ==
  /\ pc[w] = "select"
  /\ IF not_started(stage[w]) # {}
     THEN \E s \in not_started(stage[w]) :
            /\ next_spec_id' = [next_spec_id EXCEPT ![w] = s]
            /\ fresh' = [fresh EXCEPT ![w] = TRUE]
            /\ ResolveInputs(w)
     ELSE /\ next_spec_id' = next_spec_id
          /\ fresh' = [fresh EXCEPT ![w] = FALSE]
          /\ fixed_vol' = fixed_vol
          /\ pc' = [pc EXCEPT ![w] = "barrier"]
  /\ UNCHANGED << stage, err, diskVars, countVars >>
  /\ UNCHANGED padVars

\* Lines 93-97: poll check_stage_done, sleeping while it is False.
AwaitStageBarrier(w) ==
  /\ pc[w] = "barrier"
  /\ Goto(w, IF check_stage_done(stage[w]) THEN "chk_done" ELSE "barrier")
  /\ UNCHANGED << diskVars, countVars >>
  /\ UNCHANGED padVars

\* Lines 99-100: avg_done exists: break.
CheckAverageDone(w) ==
  /\ pc[w] = "chk_done"
  /\ IF average_done_is_file(stage[w])
     THEN NextStage(w)
     ELSE Goto(w, "chk_started")
  /\ UNCHANGED << diskVars, countVars >>
  /\ UNCHANGED padVars

\* Lines 102-103, 114: avg_started exists: sleep, then fall through to line 116.
CheckAverageStarted(w) ==
  /\ pc[w] = "chk_started"
  /\ IF starting_avg_is_file(stage[w])
     THEN FallThrough(w)
     ELSE Goto(w, "try_create")
  /\ UNCHANGED << diskVars, countVars >>
  /\ UNCHANGED padVars

\* Mutant: the builder's statements follow the try statement instead of
\* standing in its else branch, so the loser of the creation builds as well.
TryCreateStartedLoserBuilds(w) ==
  /\ pc[w] = "try_create"
  /\ avgStarted' = [avgStarted EXCEPT ![stage[w]] =
                       IF open_starting_avg(stage[w]) THEN @ + 1 ELSE @]
  /\ Goto(w, "make_avg")
  /\ UNCHANGED << specDirs, specDone, avgDone, avgFile, paramFile, countVars >>
  /\ UNCHANGED padVars

\* Lines 105-110, 114: exclusive creation of avg_started; FileExistsError is
\* caught and the worker sleeps and falls through to line 116.
TryCreateStarted(w) ==
  /\ pc[w] = "try_create"
  /\ IF open_starting_avg(stage[w])
     THEN /\ avgStarted' = [avgStarted EXCEPT ![stage[w]] = @ + 1]
          /\ Goto(w, "make_avg")
     ELSE /\ avgStarted' = avgStarted
          /\ FallThrough(w)
  /\ UNCHANGED << specDirs, specDone, avgDone, avgFile, paramFile, countVars >>
  /\ UNCHANGED padVars

\* Mutant: a bare except catches every error of line 106 and the builder's
\* statements are not in an else branch.
TryCreateOSErrorBuilds(w) ==
  /\ pc[w] = "try_create"
  /\ err' = [err EXCEPT ![w] = "OSError"]
  /\ pc' = [pc EXCEPT ![w] = "make_avg"]
  /\ UNCHANGED << stage, next_spec_id, fresh, fixed_vol, diskVars, countVars >>
  /\ UNCHANGED padVars

\* Line 106 raising an OSError other than FileExistsError: not caught.
TryCreateOSError(w) ==
  /\ pc[w] = "try_create"
  /\ Raise(w, "OSError")
  /\ UNCHANGED << diskVars, countVars >>
  /\ UNCHANGED padVars

\* Mutant: make_avg returns before the average file is written out.
MakeAvgStartNoWait(w) ==
  /\ pc[w] = "make_avg"
  /\ avgCalls' = [avgCalls EXCEPT ![stage[w]] = @ + 1]
  /\ avgInputs' = [avgInputs EXCEPT ![stage[w]] = make_avg_paths(stage[w])]
  /\ avgFile' = [avgFile EXCEPT ![stage[w]] = "partial"]
  /\ Goto(w, "mark_avg")
  /\ UNCHANGED << specDirs, specDone, avgStarted, avgDone, paramFile, regCalls, seed >>
  /\ UNCHANGED padVars

\* Line 111, make_avg lines 28-37: the volumes are read and averaged and
\* sitk.WriteImage starts writing the average file.
MakeAvgStart(w) ==
  /\ pc[w] = "make_avg"
  /\ avgCalls' = [avgCalls EXCEPT ![stage[w]] = @ + 1]
  /\ avgInputs' = [avgInputs EXCEPT ![stage[w]] = make_avg_paths(stage[w])]
  /\ avgFile' = [avgFile EXCEPT ![stage[w]] = "partial"]
  /\ Goto(w, "averaging")
  /\ UNCHANGED << specDirs, specDone, avgStarted, avgDone, paramFile, regCalls, seed >>
  /\ UNCHANGED padVars

\* make_avg line 37 returns: the average file is complete.
MakeAvgFinish(w) ==
  /\ pc[w] = "averaging"
  /\ avgFile' = [avgFile EXCEPT ![stage[w]] = "complete"]
  /\ Goto(w, "mark_avg")
  /\ UNCHANGED << specDirs, specDone, avgStarted, avgDone, paramFile, countVars >>
  /\ UNCHANGED padVars

\* make_avg raises (absent or mismatched volumes): not caught.
MakeAvgFail(w) ==
  /\ pc[w] = "averaging"
  /\ Raise(w, "AverageError")
  /\ UNCHANGED << diskVars, countVars >>
  /\ UNCHANGED padVars

\* Mutant: the builder removes avg_started once avg_done is in place.
MarkAverageDoneCleanup(w) ==
  /\ pc[w] = "mark_avg"
  /\ avgDone' = [avgDone EXCEPT ![stage[w]] = @ + 1]
  /\ avgStarted' = [avgStarted EXCEPT ![stage[w]] = 0]
  /\ NextStage(w)
  /\ UNCHANGED << specDirs, specDone, avgFile, paramFile, countVars >>
  /\ UNCHANGED padVars

\* Lines 112-113: create avg_done exclusively, break.
MarkAverageDone(w) ==
  /\ pc[w] = "mark_avg"
  /\ IF open_average_done(stage[w])
     THEN /\ avgDone' = [avgDone EXCEPT ![stage[w]] = @ + 1]
          /\ NextStage(w)
     ELSE /\ avgDone' = avgDone
          /\ Raise(w, "FileExistsError")
  /\ UNCHANGED << specDirs, specDone, avgStarted, avgFile, paramFile, countVars >>
  /\ UNCHANGED padVars

\* Lines 138-146: the moving volume given to reg_method and the target given
\* to registrator.set_target by worker w.
CallArgs(w) ==
  [ moving |-> moving_volume(stage[w], next_spec_id[w]), target |-> fixed_vol[w] ]

\* Line 129: elxparam_path.is_file()
ParamCheck(w) ==
  /\ pc[w] = "param"
  /\ Goto(w, IF paramFile[stage[w]] = "absent" THEN "param_open" ELSE "run")
  /\ UNCHANGED << diskVars, countVars >>
  /\ UNCHANGED padVars

\* Line 130: open(elxparam_path, 'w') creates the file or truncates it.
ParamOpen(w) ==
  /\ pc[w] = "param_open"
  /\ paramFile' = [paramFile EXCEPT ![stage[w]] = "empty"]
  /\ Goto(w, "param_write")
  /\ UNCHANGED << specDirs, specDone, avgStarted, avgDone, avgFile, countVars >>
  /\ UNCHANGED padVars

\* Lines 131-132 and the end of the with block: the content reaches the file.
ParamWrite(w) ==
  /\ pc[w] = "param_write"
  /\ paramFile' = [paramFile EXCEPT ![stage[w]] = "written"]
  /\ Goto(w, "run")
  /\ UNCHANGED << specDirs, specDone, avgStarted, avgDone, avgFile, countVars >>
  /\ UNCHANGED padVars

\* Lines 138-148: registrator.run() is entered; it creates the specimen's
\* directory in stage_dir (comment of line 149).
RunStart(w) ==
  /\ pc[w] = "run"
  /\ specDirs' = [specDirs EXCEPT ![stage[w]] = @ \cup {next_spec_id[w]}]
  /\ regCalls' = [regCalls EXCEPT ![stage[w]][next_spec_id[w]] = @ + 1]
  /\ Goto(w, "running")
  /\ UNCHANGED << specDone, avgStarted, avgDone, avgFile, paramFile, avgCalls, avgInputs, seed >>
  /\ UNCHANGED padVars

\* registrator.run() returns (line 148).
RunOk(w) ==
  /\ pc[w] = "running"
  /\ Goto(w, "spec_done")
  /\ UNCHANGED << diskVars, countVars >>
  /\ UNCHANGED padVars

\* registrator.run() raises: not caught.
RunFail(w) ==
  /\ pc[w] = "running"
  /\ Raise(w, "RegistrationError")
  /\ UNCHANGED << diskVars, countVars >>
  /\ UNCHANGED padVars

\* Lines 149-150: create spec_done exclusively, back to the top of the loop.
MarkSpecDone(w) ==
  /\ pc[w] = "spec_done"
  /\ IF open_spec_done(stage[w], next_spec_id[w])
     THEN /\ specDone' = [specDone EXCEPT ![stage[w]][next_spec_id[w]] = @ + 1]
          /\ pc' = [pc EXCEPT ![w] = "select"]
          /\ fresh' = [fresh EXCEPT ![w] = FALSE]
          /\ UNCHANGED << stage, next_spec_id, fixed_vol, err >>
     ELSE /\ specDone' = specDone
          /\ Raise(w, "FileExistsError")
  /\ UNCHANGED << specDirs, avgStarted, avgDone, avgFile, paramFile, countVars >>
  /\ UNCHANGED padVars

\* The process is terminated from outside.
Kill(w) ==
  /\ pc[w] \in Live
  /\ Ends(w, "killed", "none")
  /\ UNCHANGED << diskVars, countVars >>
  /\ UNCHANGED padVars

-----------------------------------------------------------------------------
(* pad_volumes (img_processing/pad.py). *)

\* Line 45: diffs = [m - v for m, v in zip(max_dims, vol_dims)]
diffs(m, v) == [d \in Dims |-> m[d] - v[d]]

\* Line 48: upper_extend = [d // 2 for d in diffs] (floor division)
extend_upper(df) == [d \in Dims |-> df[d] \div 2]

\* Line 51: remainders = [d % 2 for d in diffs] (0 or 1, also for d < 0)
remainders(df) == [d \in Dims |-> df[d] % 2]

\* Mutant: the remainder is not added to the lower extension.
extend_lower_even(upper, rem) == upper

\* Line 54: lower_extend = [u + r for u, r in zip(upper_extend, remainders)]
extend_lower(upper, rem) == [d \in Dims |-> upper[d] + rem[d]]

\* Lines 57-59: some extension is negative.
any_negative(lower, upper) == \E d \in Dims : lower[d] < 0 \/ upper[d] < 0

\* pad_volumes is called with some max_dims; the loop of line 35 starts.
InitPad ==
  /\ WorkersAt([w \in Workers |-> "idle"])
  /\ FreshDisk
  /\ NoCalls
  /\ seed = [stage |-> 0, done |-> {}, failed |-> {}]
  /\ max_dims \in [Dims -> Sizes]
  /\ pad = [ pc |-> "loop", i |-> 1, vol_dims |-> NoDims, upper_extend |-> NoDims,
             lower_extend |-> NoDims, written |-> {} ]

\* Lines 35-54: the next volume is loaded, its size read, the extensions
\* computed.
PadLoad ==
  /\ pad.pc = "loop"
  /\ pad.i <= NumVols
  /\ \E v \in [Dims -> Sizes] :
       LET df == diffs(max_dims, v)
           upper == extend_upper(df)
           lower == extend_lower(upper, remainders(df))
       IN pad' = [pad EXCEPT !.pc = "check", !.vol_dims = v,
                             !.upper_extend = upper, !.lower_extend = lower]
  /\ UNCHANGED << workerVars, diskVars, countVars, max_dims >>

\* Lines 37-41: the image cannot be loaded: sys.exit().
PadLoadFail ==
  /\ pad.pc = "loop"
  /\ pad.i <= NumVols
  /\ pad' = [pad EXCEPT !.pc = "exited"]
  /\ UNCHANGED << workerVars, diskVars, countVars, max_dims >>

\* Lines 57-68: an extension is negative: LamaDataException.
PadReject ==
  /\ pad.pc = "check"
  /\ any_negative(pad.lower_extend, pad.upper_extend)
  /\ pad' = [pad EXCEPT !.pc = "raised"]
  /\ UNCHANGED << workerVars, diskVars, countVars, max_dims >>

\* Lines 71-78: the volume is padded and written, the loop goes on.
PadWrite ==
  /\ pad.pc = "check"
  /\ ~any_negative(pad.lower_extend, pad.upper_extend)
  /\ pad' = [pad EXCEPT !.pc = "loop", !.i = pad.i + 1,
                        !.written = pad.written \cup {pad.i}]
  /\ UNCHANGED << workerVars, diskVars, countVars, max_dims >>

\* Line 79: the loop is over, pad_info is returned.
PadReturn ==
  /\ pad.pc = "loop"
  /\ pad.i > NumVols
  /\ pad' = [pad EXCEPT !.pc = "returned"]
  /\ UNCHANGED << workerVars, diskVars, countVars, max_dims >>

NextPad == PadLoad \/ PadLoadFail \/ PadReject \/ PadWrite \/ PadReturn

\* One call of pad_volumes on volumes of any sizes.
SpecPad == InitPad /\ [][NextPad]_vars

-----------------------------------------------------------------------------
(* Specifications. *)

\* The steps of run_elastix_stage when every call succeeds.
Step(w) ==
  \/ SelectWork(w)
  \/ AwaitStageBarrier(w)
  \/ CheckAverageDone(w)
  \/ CheckAverageStarted(w)
  \/ TryCreateStarted(w)
  \/ MakeAvgStart(w)
  \/ MakeAvgFinish(w)
  \/ MarkAverageDone(w)
  \/ ParamCheck(w)
  \/ ParamOpen(w)
  \/ ParamWrite(w)
  \/ RunStart(w)
  \/ RunOk(w)
  \/ MarkSpecDone(w)

\* The failures the environment can inflict.
Fault(w) ==
  \/ TryCreateOSError(w)
  \/ MakeAvgFail(w)
  \/ RunFail(w)
  \/ Kill(w)

Next == \E w \in Workers : Launch(w) \/ Step(w) \/ Fault(w)

\* Any number of workers, started at any time, with any failures.
Spec == Init /\ [][Next]_vars

\* Every call succeeds and no process is killed.
NextLive == \E w \in Workers : Step(w)

\* Each worker is an operating-system process of its own: a process that can
\* take a step eventually takes one.
Fairness == \A w \in Workers : WF_vars(Step(w))

\* N >= 1 workers started together, every call succeeding, fair scheduling.
SpecLive == InitLive /\ [][NextLive]_vars /\ Fairness

\* One fresh worker on a seeded disk, every call succeeding, fair scheduling.
SpecResume == InitResume /\ [][NextLive]_vars /\ Fairness

\* One worker of a new invocation on a disk that may hold an unfinished
\* registration; every call of the new invocation succeeds; fair scheduling.
SpecRetry == InitRetry /\ [][NextLive]_vars /\ Fairness

\* check_stage_done applied once to a stage directory of any content.
NextBarrier == AwaitStageBarrier(1)

SpecBarrier == InitBarrier /\ [][NextBarrier]_vars

-----------------------------------------------------------------------------
(* Properties. *)

\* Every specimen has spec_done in stage k and avg_done of stage k exists.
StageCompleteOnDisk(k) ==
  /\ \A s \in Specimens : specDone[k][s] > 0
  /\ avgDone[k] > 0

\* Statements of the registration branch (lines 116-150).
Registering == { "param", "param_open", "param_write", "run", "running", "spec_done" }
\* Statements of the polling branch up to the exclusive creation (lines 86-106).
Polling == { "select", "barrier", "chk_done", "chk_started", "try_create" }
\* Statements of the elected builder (lines 110-112).
Building == { "make_avg", "averaging", "mark_avg" }

\* C1: in every stage the exclusive creation of avg_started succeeds at most
\* once, and make_avg is invoked (the average file written) at most once.
C1_AtMostOneBuilder ==
  \A k \in Stages : avgStarted[k] <= 1 /\ avgCalls[k] <= 1

\* C1 witness: a worker is about to attempt the exclusive creation although
\* another worker has created avg_started and invoked make_avg.
C1_Witness ==
  \E w \in Workers :
    /\ pc[w] = "try_create"
    /\ avgStarted[stage[w]] = 1
    /\ avgCalls[stage[w]] = 1

\* C2: a worker that attempts to create avg_started of stage k, or is inside
\* the builder branch of stage k, finds spec_done of every specimen in stage k.
C2_AverageAfterAllSpecimens ==
  \A w \in Workers :
    pc[w] \in {"try_create"} \cup Building =>
      \A s \in Specimens : specDone[stage[w]][s] > 0

\* C2 witness: a worker is about to attempt the creation while another worker
\* of the same stage is still polling the barrier.
C2_Witness ==
  \E w, v \in Workers :
    /\ w # v
    /\ pc[w] = "try_create"
    /\ pc[v] = "barrier"
    /\ stage[v] = stage[w]

\* C3: a registration of stage i+1 is entered only when avg_done of stage i
\* exists; avg_done exists only with the average file completely written, and
\* nobody is writing that file then.
C3_NextStageAfterAverage ==
  /\ \A w \in Workers :
       (pc[w] \in Registering /\ stage[w] > 0) =>
         /\ avgDone[stage[w] - 1] > 0
         /\ avgFile[stage[w] - 1] = "complete"
  /\ \A k \in Stages :
       avgDone[k] > 0 =>
         /\ avgFile[k] = "complete"
         /\ \A w \in Workers : ~(stage[w] = k /\ pc[w] \in {"make_avg", "averaging"})

\* C3 witness: a registration of the second stage is running.
C3_Witness ==
  \E w \in Workers : pc[w] = "running" /\ stage[w] = 1

\* C4 (as claimed): a worker that finds avg_started present at line 102, or
\* gets FileExistsError at line 106, only goes back to polling; it neither
\* registers anything nor ends with an exception.
C4_LoserOnlyPolls ==
  [][ \A w \in Workers :
        ( /\ pc[w] \in {"chk_started", "try_create"}
          /\ avgStarted[stage[w]] > 0
          /\ pc'[w] # pc[w]
          /\ pc'[w] # "killed"
          /\ err'[w] # "OSError" )
        => pc'[w] \in Polling ]_vars

\* C5 (as claimed): a registrator.run() call is always for the specimen the
\* worker picked from not_started in the same loop iteration.
C5_RegistersOnlySelected ==
  \A w \in Workers : pc[w] \in {"run", "running"} => fresh[w]

\* C6 (as claimed): a worker whose registration of a specimen it picked from
\* not_started has returned goes back to SelectWork, whoever else registered
\* the same specimen meanwhile.
C6_RacersSurvive ==
  [][ \A w \in Workers :
        ( /\ pc[w] = "spec_done"
          /\ fresh[w]
          /\ pc'[w] # pc[w]
          /\ pc'[w] # "killed" )
        => pc'[w] = "select" ]_vars

\* C7: spec_done of (s, k) is created at most once, and the step that creates
\* it is the step of a worker whose own registrator.run() for (s, k) returned;
\* a worker gets to line 150 only from a registrator.run() that returned.
C7_SpecDoneOnceByRegistrant ==
  [][ /\ \A k \in Stages, s \in Specimens :
           specDone'[k][s] # specDone[k][s] =>
             /\ specDone[k][s] = 0
             /\ specDone'[k][s] = 1
             /\ \E w \in Workers :
                  /\ pc[w] = "spec_done"
                  /\ stage[w] = k
                  /\ next_spec_id[w] = s
                  /\ pc'[w] = "select"
      /\ \A w \in Workers :
           (pc'[w] = "spec_done" /\ pc[w] # "spec_done") =>
             /\ pc[w] = "running"
             /\ err'[w] = "none"
             /\ stage'[w] = stage[w]
             /\ next_spec_id'[w] = next_spec_id[w] ]_vars

\* C7 witness: spec_done of a specimen exists and a second worker, whose
\* registration of the same specimen returned, is about to create it too.
C7_Witness ==
  \E w \in Workers :
    /\ pc[w] = "spec_done"
    /\ specDone[stage[w]][next_spec_id[w]] = 1

\* C8: a worker that has left the work loop of stage k (it is in a later stage
\* or has returned) left a stage with every spec_done and with avg_done.
C8_LeavesOnlyCompleteStage ==
  \A w \in Workers : \A k \in Stages :
    k < stage[w] => StageCompleteOnDisk(k)

\* C8 witness: one worker has returned while another is still in the last stage.
C8_Witness ==
  \E w, v \in Workers :
    /\ pc[w] = "returned"
    /\ pc[v] \in Live
    /\ stage[v] = NumStages - 1

\* Every stage has all its spec_done markers, avg_done, and one average file
\* written by one make_avg call.
PipelineComplete ==
  \A k \in Stages :
    /\ StageCompleteOnDisk(k)
    /\ avgFile[k] = "complete"
    /\ avgCalls[k] = 1
    /\ avgStarted[k] = 1

\* C9: with N >= 1 workers, every call succeeding and fair scheduling, the
\* pipeline eventually completes and stays complete.
C9_PipelineCompletes == <>[]PipelineComplete

\* C9 witness: the pipeline is complete although a worker ended with an exception.
C9_Witness ==
  /\ PipelineComplete
  /\ \E w \in Workers : pc[w] = "crashed"

\* Calls of the resumed run: one registration per specimen that was not
\* marked, none for a marked one, one make_avg per stage without avg_done.
ResumedCalls(s, k) ==
  IF k < seed.stage \/ (k = seed.stage /\ s \in seed.done) THEN 0 ELSE 1

\* C10: a single fresh worker on a stage seeded with the markers of D
\* registers each specimen outside D once and none of D, then wins the
\* election, builds the average once, creates avg_done and leaves the stage.
C10_ResumeRegistersOnlyMissing ==
  /\ [](\A k \in Stages, s \in Specimens : regCalls[k][s] <= ResumedCalls(s, k))
  /\ [](\A k \in Stages : avgCalls[k] <= 1)
  /\ <>( /\ stage[1] > seed.stage
         /\ \A s \in Specimens : regCalls[seed.stage][s] = ResumedCalls(s, seed.stage)
         /\ avgStarted[seed.stage] = 1
         /\ avgCalls[seed.stage] = 1
         /\ avgFile[seed.stage] = "complete"
         /\ StageCompleteOnDisk(seed.stage) )

\* C10 witness: the worker has left a stage that was seeded with some but not
\* all specimens, having registered exactly the missing ones.
C10_Witness ==
  /\ seed.done # {}
  /\ seed.done # Specimens
  /\ stage[1] > seed.stage
  /\ \A s \in Specimens : regCalls[seed.stage][s] = ResumedCalls(s, seed.stage)
  /\ avgCalls[seed.stage] = 1


-----------------------------------------------------------------------------
(* Claims C11..C20. *)

\* Stage k is on disk exactly as a run that completed it left it.
SeededComplete(k) ==
  /\ specDirs[k] = Specimens
  /\ \A s \in Specimens : specDone[k][s] = 1
  /\ avgStarted[k] = 1
  /\ avgDone[k] = 1
  /\ avgFile[k] = "complete"
  /\ paramFile[k] = "written"

\* C11: a worker run on stages in which every specimen has spec_done and
\* avg_done exists (the stages before seed.stage) changes nothing on disk for
\* them, registers nothing and builds no average in them, and gets past them.
C11_CompleteStageUntouched ==
  /\ [](\A k \in Stages : k < seed.stage =>
          /\ SeededComplete(k)
          /\ avgCalls[k] = 0
          /\ \A s \in Specimens : regCalls[k][s] = 0)
  /\ <>(stage[1] >= seed.stage)

\* C11 witness: stage 0 was complete when the worker started, and the worker
\* has left it for the next stage without a call.
C11_Witness ==
  /\ seed.stage > 0
  /\ stage[1] = 1
  /\ pc[1] = "select"
  /\ SeededComplete(0)
  /\ avgCalls[0] = 0
  /\ \A s \in Specimens : regCalls[0][s] = 0

\* C12: a registration running for specimen s in stage 0 was given s's raw
\* input as moving volume and the configured fixed volume as target; in stage
\* i > 0 it was given s's output of stage i-1 and the average of stage i-1.
C12_RegistrationInputs ==
  \A w \in Workers : pc[w] = "running" =>
    IF stage[w] = 0
    THEN /\ CallArgs(w).moving = << "inputs", next_spec_id[w] >>
         /\ CallArgs(w).target = << "config" >>
    ELSE /\ CallArgs(w).moving = << "stage", stage[w] - 1, next_spec_id[w] >>
         /\ CallArgs(w).target = << "averages", stage[w] - 1 >>

\* C12 witness: a registration is running in a later stage on the average of
\* the stage before it, while another specimen of that stage is already done.
C12_Witness ==
  \E w \in Workers :
    /\ pc[w] = "running"
    /\ stage[w] > 0
    /\ CallArgs(w).target = << "averages", stage[w] - 1 >>
    /\ \E s \in Specimens : specDone[stage[w]][s] > 0

\* C13: the step in which registrator.run() fails for worker w ends w's run
\* and changes no file and no marker (no spec_done for its specimen); from
\* then on w does nothing: it neither retries nor selects another specimen.
C13_FailedRegistrationEndsRun ==
  [][\A w \in Workers :
       /\ (err'[w] = "RegistrationError" /\ err[w] # "RegistrationError") =>
             /\ pc[w] = "running"
             /\ pc'[w] = "crashed"
             /\ specDone' = specDone
             /\ avgStarted' = avgStarted
             /\ avgDone' = avgDone
             /\ specDirs' = specDirs
             /\ regCalls' = regCalls
             /\ avgCalls' = avgCalls
       /\ err[w] = "RegistrationError" =>
             /\ pc[w] = "crashed"
             /\ pc'[w] = "crashed"
             /\ err'[w] = "RegistrationError"]_vars

\* C13 witness: a worker ended on a failed registration; its specimen has a
\* directory and no spec_done, nobody else is registering it, and another
\* worker is still running.
C13_Witness ==
  \E w \in Workers :
    /\ pc[w] = "crashed"
    /\ err[w] = "RegistrationError"
    /\ \E v \in Workers : pc[v] \in Live
    /\ \E k \in Stages, s \in Specimens :
         /\ s \in specDirs[k]
         /\ specDone[k][s] = 0
         /\ regCalls[k][s] = 1

Abandoned(k, s) ==
  /\ s \in specDirs[k]
  /\ specDone[k][s] = 0
  /\ \A w \in Workers :
       ~(stage[w] = k /\ next_spec_id[w] = s /\ pc[w] \in Registering)

\* C15: once the registration of s in stage k is abandoned (directory
\* created, spec_done not, nobody registering s), it stays so whatever any
\* worker does, also one started later: no worker takes s up in stage k, no
\* registration of s is called, spec_done(s,k) and avg_started(k) are not
\* created.
C15_AbandonedNeverRetried ==
  [][\A k \in Stages, s \in Specimens :
       Abandoned(k, s) =>
         /\ Abandoned(k, s)'
         /\ regCalls'[k][s] = regCalls[k][s]
         /\ avgStarted[k] = 0
         /\ avgStarted'[k] = 0]_vars

\* C15 witness: a worker was killed during its registration, every other
\* specimen of the stage is marked, and another worker polls the barrier of
\* that stage.
C15_Witness ==
  \E k \in Stages, s \in Specimens :
    /\ Abandoned(k, s)
    /\ \E w \in Workers : pc[w] = "killed"
    /\ \A r \in Specimens \ {s} : specDone[k][r] = 1
    /\ \E v \in Workers : pc[v] = "barrier" /\ stage[v] = k

\* avg_started of stage k exists, avg_done does not, and no worker is on the
\* builder's statements for stage k: the elected builder has stopped.
BuilderGone(k) ==
  /\ avgStarted[k] > 0
  /\ avgDone[k] = 0
  /\ \A w \in Workers : ~(stage[w] = k /\ pc[w] \in Building)

\* C16: once the elected builder of stage k has stopped between avg_started
\* and avg_done, it stays so: avg_done(k) is not created, make_avg is not
\* called for stage k again, and no worker is or gets beyond stage k.
C16_DeadBuilderBlocksStage ==
  [][\A k \in Stages :
       BuilderGone(k) =>
         /\ BuilderGone(k)'
         /\ avgCalls'[k] = avgCalls[k]
         /\ \A w \in Workers : stage[w] <= k /\ stage'[w] <= k]_vars

\* C16 witness: make_avg raised in the elected builder, and another worker
\* is still running in that stage.
C16_Witness ==
  \E k \in Stages :
    /\ BuilderGone(k)
    /\ avgCalls[k] = 1
    /\ \E w \in Workers : pc[w] = "crashed" /\ err[w] = "AverageError"
    /\ \E v \in Workers : pc[v] \in Live /\ stage[v] = k

\* C17: whenever make_avg has been called for stage k, the paths it collected
\* are the output volumes of stage k of exactly the specimen ids, one each.
C17_AverageOverAllSpecimens ==
  \A k \in Stages :
    avgCalls[k] > 0 => avgInputs[k] = { << "stage", k, s >> : s \in Specimens }

\* C17 witness: make_avg has been called for the last stage, once, with one
\* path per specimen.
C17_Witness ==
  /\ avgCalls[NumStages - 1] = 1
  /\ Cardinality(avgInputs[NumStages - 1]) = NumSpecs

\* C18: no step removes a marker: a spec_done, avg_started or avg_done that
\* exists before a step exists after it, whichever worker steps, fails or is
\* killed.
C18_MarkersNeverDeleted ==
  [][\A k \in Stages :
       /\ avgStarted[k] > 0 => avgStarted'[k] > 0
       /\ avgDone[k] > 0 => avgDone'[k] > 0
       /\ \A s \in Specimens : specDone[k][s] > 0 => specDone'[k][s] > 0]_vars

\* C18 witness: markers of all three kinds exist, one worker ended on an
\* exception and another was killed.
C18_Witness ==
  /\ \E w \in Workers : pc[w] = "crashed"
  /\ \E w \in Workers : pc[w] = "killed"
  /\ avgStarted[0] > 0
  /\ avgDone[0] > 0
  /\ \E k \in Stages : k > 0 /\ \E s \in Specimens : specDone[k][s] > 0

\* C19: a single worker whose calls all succeed takes the stages in
\* configuration order, one at a time: it moves from a stage to the next one
\* only, has called nothing in a stage it has not reached, leaves complete
\* every stage it is past, never ends on an exception, and finally returns
\* with avg_done in every stage, created by itself (one make_avg call) in
\* every stage that was not complete when it started.
C19_SingleWorkerRunsAllStages ==
  /\ [][stage'[1] = stage[1] \/ stage'[1] = stage[1] + 1]_vars
  /\ [](\A k \in Stages :
          /\ k > stage[1] =>
                avgCalls[k] = 0 /\ \A s \in Specimens : regCalls[k][s] = 0
          /\ k < stage[1] =>
                avgDone[k] = 1 /\ \A s \in Specimens : specDone[k][s] = 1)
  /\ [](pc[1] # "crashed")
  /\ <>[]( /\ pc[1] = "returned"
            /\ \A k \in Stages :
                 /\ avgDone[k] = 1
                 /\ k >= seed.stage => avgCalls[k] = 1 )

\* C19 witness: started on an empty disk, the worker has returned after
\* registering every specimen and building the average in every stage.
C19_Witness ==
  /\ seed.stage = 0
  /\ seed.done = {}
  /\ pc[1] = "returned"
  /\ \A k \in Stages :
       /\ avgDone[k] = 1
       /\ avgCalls[k] = 1
       /\ \A s \in Specimens : regCalls[k][s] = 1

\* C20: the step in which the exclusive creation of avg_started fails with
\* an error other than FileExistsError ends the worker's run without a
\* make_avg call and without creating avg_started or avg_done; the worker
\* does nothing afterwards.
C20_OtherCreateErrorIsFatal ==
  [][\A w \in Workers :
       /\ (err'[w] = "OSError" /\ err[w] # "OSError") =>
             /\ pc[w] = "try_create"
             /\ pc'[w] = "crashed"
             /\ avgCalls' = avgCalls
             /\ avgStarted' = avgStarted
             /\ avgDone' = avgDone
       /\ err[w] = "OSError" =>
             /\ pc[w] = "crashed"
             /\ pc'[w] = "crashed"
             /\ err'[w] = "OSError"]_vars

\* C20 witness: a worker ended on such an error in a stage whose specimens
\* are all marked; no average was built and no avg marker exists there.
C20_Witness ==
  \E w \in Workers, k \in Stages :
    /\ pc[w] = "crashed"
    /\ err[w] = "OSError"
    /\ \A s \in Specimens : specDone[k][s] > 0
    /\ avgStarted[k] = 0
    /\ avgDone[k] = 0
    /\ avgCalls[k] = 0

-----------------------------------------------------------------------------
(* Claims C21..C25. *)

\* C21: while make_avg runs for stage k, and whenever avg_done of stage k
\* exists, no registrator.run() call of stage k is in progress on any worker.
C21_NoRegistrationWhileAveraging ==
  \A k \in Stages :
    ( \/ \E w \in Workers : stage[w] = k /\ pc[w] = "averaging"
      \/ avgDone[k] > 0 ) =>
    \A v \in Workers : ~(stage[v] = k /\ pc[v] = "running")

\* C22: whenever a worker enters registrator.run() in stage k, the parameter
\* file of stage k holds its complete content.
C22_ParamFileWrittenBeforeRun ==
  [][\A w \in Workers :
       (pc[w] = "run" /\ pc'[w] = "running") =>
         paramFile[stage[w]] = "written"]_vars

\* C23: avg_done of stage k exists only together with avg_started and a
\* finished make_avg call; it is created only by a worker that is past its
\* make_avg call for stage k, a worker enters make_avg only by creating
\* avg_started of its stage itself, and leaves it only by its return.
C23_AvgDoneOnlyByElectedBuilder ==
  /\ [](\A k \in Stages :
          avgDone[k] > 0 =>
            avgStarted[k] > 0 /\ avgCalls[k] > 0 /\ avgFile[k] = "complete")
  /\ [][/\ \A k \in Stages :
            avgDone'[k] # avgDone[k] =>
              \E w \in Workers :
                stage[w] = k /\ pc[w] = "mark_avg" /\ pc'[w] # "mark_avg"
        /\ \A w \in Workers :
            /\ (pc'[w] = "mark_avg" /\ pc[w] # "mark_avg") =>
                  pc[w] = "averaging" /\ stage'[w] = stage[w]
            /\ (pc'[w] = "averaging" /\ pc[w] # "averaging") =>
                  pc[w] = "make_avg" /\ stage'[w] = stage[w]
            /\ (pc'[w] = "make_avg" /\ pc[w] # "make_avg") =>
                  /\ pc[w] = "try_create"
                  /\ stage'[w] = stage[w]
                  /\ avgStarted[stage[w]] = 0
                  /\ avgStarted'[stage[w]] = 1]_vars

\* C23 witness: avg_done of stage 0 exists, created by the one worker that
\* created avg_started, while a second worker lost the creation.
C23_Witness ==
  /\ avgDone[0] = 1
  /\ avgStarted[0] = 1
  /\ avgCalls[0] = 1
  /\ \E w \in Workers : stage[w] = 1 /\ pc[w] \in Live
  /\ \E v \in Workers : pc[v] = "crashed" /\ err[v] \in {"UnboundLocalError", "FileExistsError"}

\* C24: check_stage_done is True exactly when every sub-directory of the
\* stage directory holds spec_done, whatever files lie beside them, so also
\* when there is no sub-directory; the worker leaves the polling loop exactly
\* on True.
C24_CheckStageDone ==
  /\ \A k \in Stages :
       /\ check_stage_done(k) <=> (\A s \in specDirs[k] : specDone[k][s] > 0)
       /\ specDirs[k] = {} => check_stage_done(k)
  /\ pc[1] = "chk_done" => \A s \in specDirs[stage[1]] : specDone[stage[1]][s] > 0
  /\ pc[1] = "barrier" =>
       (ENABLED <<AwaitStageBarrier(1)>>_vars
          <=> \A s \in specDirs[stage[1]] : specDone[stage[1]][s] > 0)

\* C24 witness: check_stage_done returned True for a stage directory that
\* holds avg_started, avg_done and the parameter file beside specimen
\* directories that all hold spec_done.
C24_Witness ==
  /\ pc[1] = "chk_done"
  /\ specDirs[stage[1]] # {}
  /\ avgStarted[stage[1]] > 0
  /\ avgDone[stage[1]] > 0
  /\ paramFile[stage[1]] # "absent"

\* C25: once pad_volumes has computed the extensions of a volume, in every
\* dimension with d = max_dim - vol_dim >= 0 the upper extension is d div 2,
\* the lower one is that plus d mod 2, both are non-negative, they sum to d
\* and differ by at most 1; a volume with d < 0 in some dimension makes the
\* next step raise, and it is never written: only a volume with d >= 0 in
\* every dimension is.
C25_PadExtensions ==
  /\ [](pad.pc = "check" =>
          \A d \in Dims :
            max_dims[d] - pad.vol_dims[d] >= 0 =>
              /\ pad.upper_extend[d] = (max_dims[d] - pad.vol_dims[d]) \div 2
              /\ pad.lower_extend[d] =
                   pad.upper_extend[d] + ((max_dims[d] - pad.vol_dims[d]) % 2)
              /\ pad.upper_extend[d] >= 0
              /\ pad.lower_extend[d] >= 0
              /\ pad.upper_extend[d] + pad.lower_extend[d] = max_dims[d] - pad.vol_dims[d]
              /\ pad.lower_extend[d] - pad.upper_extend[d] \in {0, 1})
  /\ [][/\ (pad.pc = "check" /\ \E d \in Dims : max_dims[d] - pad.vol_dims[d] < 0) =>
            (pad'.pc = "raised" /\ pad'.written = pad.written)
        /\ pad'.written # pad.written =>
            /\ pad.pc = "check"
            /\ \A d \in Dims : max_dims[d] - pad.vol_dims[d] >= 0
            /\ pad'.written = pad.written \cup {pad.i}
        /\ pad.pc = "raised" => pad' = pad]_vars

\* C25 witness: the first volume was padded and written, the second is one
\* voxel too large in one dimension (upper extension -1, lower extension 0)
\* and short by an odd number in another; the exception was raised.
C25_Witness ==
  /\ pad.pc = "raised"
  /\ pad.written = {1}
  /\ pad.i = 2
  /\ \E d \in Dims :
       /\ max_dims[d] - pad.vol_dims[d] = 0 - 1
       /\ pad.upper_extend[d] = 0 - 1
       /\ pad.lower_extend[d] = 0
  /\ \E d \in Dims :
       /\ max_dims[d] - pad.vol_dims[d] = 1
       /\ pad.upper_extend[d] = 0
       /\ pad.lower_extend[d] = 1

=============================================================================
